---- MODULE Spec2Model ----
(***************************************************************************)
(* The credential store and session holder of src-tauri/src/auth.rs: the   *)
(* four Tauri commands register_user, login_user, logout_user and          *)
(* get_current_user run on worker threads against one DbState, which owns  *)
(* a SQLite connection behind the mutex `conn` and the signed-in user      *)
(* behind the mutex `current_user`.                                        *)
(***************************************************************************)
EXTENDS Integers, Sequences, FiniteSets, TLC

(***************************************************************************)
(* Bounds of the model.                                                    *)
(***************************************************************************)
\* commands the front-end invokes in a run of one command at a time
MaxCalls == 3
\* commands the front-end invokes in a run where commands overlap
MaxOverlappingCalls == 2

\* the worker threads the host bridge dispatches handlers on
Threads == {"worker1", "worker2"}
\* the holder of a mutex nobody holds
NoThread == "nobody"

(***************************************************************************)
(* Request payloads.  A String is the sequence of its characters' code     *)
(* points for the password (whose length the code measures), and an opaque *)
(* text, "" when empty, for username and email.                            *)
(***************************************************************************)
Usernames == {"", "alice", "bob"}
Emails == {"", "alice@x", "bob@x"}

PwEmpty == << >>
\* "12345"
PwShort == <<49, 50, 51, 52, 53>>
\* "secret"
PwSecret == <<115, 101, 99, 114, 101, 116>>
\* three two-byte characters: U+00E9 U+00E9 U+00E9
PwWide == <<233, 233, 233>>
Passwords == {PwEmpty, PwShort, PwSecret, PwWide}

\* Option<T>
None == [tag |-> "None"]
Some(x) == [tag |-> "Some", val |-> x]

\* number of bytes of the UTF-8 encoding of one character
Utf8Len(c) == IF c < 128 THEN 1 ELSE IF c < 2048 THEN 2 ELSE IF c < 65536 THEN 3 ELSE 4

RECURSIVE ByteLen(_)
\* String::len(): the length in bytes
ByteLen(s) == IF s = << >> THEN 0 ELSE Utf8Len(Head(s)) + ByteLen(Tail(s))

\* String::chars().count(): the length in characters
CharLen(s) == Len(s)

\* String::is_empty() of a password
IsEmpty(s) == s = << >>

\* the minimum accepted password.len()
MinPasswordLen == 6

(***************************************************************************)
(* AuthResponse values and command-level errors.                           *)
(***************************************************************************)
AuthResponse(s, m, u) == [kind |-> "Ok", success |-> s, message |-> m, user |-> u]
CmdErr(m) == [kind |-> "Err", message |-> m]
NoResp == [kind |-> "None"]

RequiredRegister == AuthResponse(FALSE, "Username, email, and password are required", None)
TooShort == AuthResponse(FALSE, "Password must be at least 6 characters", None)
AlreadyExists == AuthResponse(FALSE, "Username or email already exists", None)
RegistrationOk(u) == AuthResponse(TRUE, "Registration successful", Some(u))
RequiredLogin == AuthResponse(FALSE, "Username and password are required", None)
InvalidCredentials == AuthResponse(FALSE, "Invalid username or password", None)
LoginOk(u) == AuthResponse(TRUE, "Login successful", Some(u))
LoggedOut == AuthResponse(TRUE, "Logged out successfully", None)
CurrentUserOk(u) == [kind |-> "Ok", value |-> u]

ErrHash == CmdErr("Failed to hash password")
ErrCreateUser == CmdErr("Failed to create user")
ErrCreatePrefs == CmdErr("Failed to create user preferences")
ErrFetchUser == CmdErr("Failed to fetch user")
\* a handler that panicked: it unwinds and returns no value
Panicked == [kind |-> "Panic"]
ErrVerify == CmdErr("Password verification error")

(***************************************************************************)
(* PasswordHasher: bcrypt::hash draws a fresh salt and returns a digest    *)
(* that embeds it; bcrypt::verify recomputes the digest of the plaintext   *)
(* under the embedded salt and compares.  The salt of a call is the call's *)
(* number: no two calls draw the same.                                     *)
(***************************************************************************)
Digest(salt, pw) == [alg |-> "bcrypt", salt |-> salt, of |-> pw]

\* verification, were it to look at the algorithm tag alone
BcryptVerifyAny(pw, digest) == digest.alg = "bcrypt"

\* bcrypt::verify
BcryptVerify(pw, digest) == digest = Digest(digest.salt, pw)

(***************************************************************************)
(* The SQL statements, as functions of the tables.                         *)
(***************************************************************************)
\* the defaults, were the schema to declare DEFAULT 2 for decimal_places
DefaultPreferencesTwoPlaces(id) ==
    [user_id |-> id, default_volume |-> 100, default_volume_unit |-> "mL",
     default_concentration_unit |-> "M", recent_chemicals |-> None,
     favorite_recipes |-> None, theme |-> "auto", scientific_notation |-> 0,
     decimal_places |-> 2]

\* the row INSERT INTO user_preferences (user_id) VALUES (?) creates
DefaultPreferences(id) ==
    [user_id |-> id, default_volume |-> 100, default_volume_unit |-> "mL",
     default_concentration_unit |-> "M", recent_chemicals |-> None,
     favorite_recipes |-> None, theme |-> "auto", scientific_notation |-> 0,
     decimal_places |-> 4]

\* the row INSERT INTO users (username, email, password_hash) creates
UserRow(id, u, e, h, ts) ==
    [id |-> id, username |-> u, email |-> e, password_hash |-> h, created_at |-> ts]

\* struct User: the columns a handler returns
UserOf(row) ==
    [id |-> row.id, username |-> row.username, email |-> row.email,
     created_at |-> row.created_at]

\* the first row of a result set, rows coming in rowid order
FirstRow(rows) == CHOOSE r \in rows : \A q \in rows : r.id <= q.id

\* the probe, were it to compare the username alone
SelectByUsernameOnly(us, u, e) == {r \in us : r.username = u}

\* SELECT id FROM users WHERE username = ? OR email = ?
SelectByUsernameOrEmail(us, u, e) == {r \in us : r.username = u \/ r.email = e}

\* SELECT ... FROM users WHERE username = ?
SelectByUsername(us, u) == {r \in us : r.username = u}

\* SELECT ... FROM users WHERE id = ?
SelectById(us, id) == {r \in us : r.id = id}

\* the UNIQUE constraints of users.username and users.email
UsersConstraintOk(us, u, e) ==
    \A r \in us : r.username # u /\ r.email # e

\* the PRIMARY KEY constraint of user_preferences.user_id
PrefsConstraintOk(ps, id) == \A r \in ps : r.user_id # id

(***************************************************************************)
(* State.                                                                  *)
(***************************************************************************)
VARIABLES
    \* users.db: the tables users and user_preferences, the AUTOINCREMENT
    \* counter of users (sqlite_sequence) and the connection's last insert rowid
    users, prefs, seq, lastRowid,
    \* DbState.current_user: Option<User>
    current_user,
    \* the thread holding the mutex DbState.conn, DbState.current_user
    connLock, sessLock,
    \* the mutex DbState.conn is poisoned: a thread panicked holding its guard
    connPoisoned,
    \* per thread: position in its handler, the request, the handler's
    \* locals, and the value the handler returned
    pc, req, loc, resp,
    \* history, per thread, of the call in progress: what it did (did), the
    \* outcomes the environment chose (faults, ts, hash), and what had been
    \* registered under the request's username when the call began (reg)
    trace,
    \* history: the serial replica, to which every call is applied in one
    \* step, and the response the replica gave to each thread's call
    ser, serResp,
    \* history: username -> the password and user of its successful registration
    regOk,
    \* history: no two calls have overlapped since process start (serialRun);
    \* while so, the world when the call in progress began (pre) and the user
    \* of the most recent of {successful register, successful login, logout,
    \* process start} (lastOutcome)
    pre, lastOutcome, serialRun,
    \* history: the process has handed no result to the front-end since it
    \* started
    booted,
    \* commands invoked so far; it is also the clock datetime('now') reads,
    \* which ticks on every invocation
    calls

db == <<users, prefs, seq, lastRowid>>
locks == <<connLock, sessLock>>
frame == <<pc, req, loc, resp>>
vars == <<users, prefs, seq, lastRowid, current_user, connLock, sessLock, connPoisoned,
          pc, req, loc, resp, trace, ser, serResp, regOk, pre, lastOutcome, serialRun,
          booted, calls>>

NoReq == [op |-> "none"]
RegisterRequest(u, e, p) == [op |-> "register", username |-> u, email |-> e, password |-> p]
LoginRequest(u, p) == [op |-> "login", username |-> u, password |-> p]
LogoutRequest == [op |-> "logout"]
WhoamiRequest == [op |-> "whoami"]

\* the locals of a handler before it has assigned any
NoLocals == [password_hash |-> None, exists |-> None, user_id |-> None,
             user |-> None, user_result |-> None]
NoTrace == [call |-> 0, did |-> {}, faults |-> {}, ts |-> None, hash |-> None,
            reg |-> None]

\* the tables and the slot as one value
World(us, ps, sq, cu) == [users |-> us, prefs |-> ps, seq |-> sq, current_user |-> cu]

\* DbState::new on a path with no file yet, and the handlers idle
Init ==
    /\ users = {} /\ prefs = {} /\ seq = 0 /\ lastRowid = 0
    /\ current_user = None
    /\ connLock = NoThread /\ sessLock = NoThread
    /\ connPoisoned = FALSE
    /\ pc = [t \in Threads |-> "idle"]
    /\ req = [t \in Threads |-> NoReq]
    /\ loc = [t \in Threads |-> NoLocals]
    /\ resp = [t \in Threads |-> NoResp]
    /\ trace = [t \in Threads |-> NoTrace]
    /\ ser = World({}, {}, 0, None)
    /\ serResp = [t \in Threads |-> NoResp]
    /\ regOk = [u \in Usernames |-> None]
    /\ pre = None
    /\ lastOutcome = None
    /\ serialRun = TRUE
    /\ booted = TRUE
    /\ calls = 0

(***************************************************************************)
(* The handlers run alone, from call to return, as functions of the world  *)
(* w, the request rq and the outcomes c the environment chose for the call *)
(* (c.hash: the digest bcrypt::hash returned, c.ts: the value of           *)
(* datetime('now'), c.faults: the statements that failed in the engine or  *)
(* the hasher, and whether the call met a poisoned mutex).  Each returns   *)
(* the world after the call and the response.                              *)
(***************************************************************************)
Outcome(w, r) == [w |-> w, resp |-> r]

\* register_user
RegisterSerial(w, rq, c) ==
    IF rq.username = "" \/ IsEmpty(rq.password) \/ rq.email = ""
    THEN Outcome(w, RequiredRegister)
    ELSE IF ByteLen(rq.password) < MinPasswordLen
    THEN Outcome(w, TooShort)
    ELSE IF "hash" \in c.faults
    THEN Outcome(w, ErrHash)
    ELSE IF "poisoned" \in c.faults
    THEN Outcome(w, Panicked)
    ELSE IF "probe" \notin c.faults
            /\ SelectByUsernameOrEmail(w.users, rq.username, rq.email) # {}
    THEN Outcome(w, AlreadyExists)
    ELSE IF "insert" \in c.faults
            \/ ~UsersConstraintOk(w.users, rq.username, rq.email)
    THEN Outcome(w, ErrCreateUser)
    ELSE LET id == w.seq + 1
             row == UserRow(id, rq.username, rq.email, c.hash.val, c.ts.val)
             w1 == [w EXCEPT !.users = @ \cup {row}, !.seq = id]
         IN  IF "prefs" \in c.faults \/ ~PrefsConstraintOk(w.prefs, id)
             THEN Outcome(w1, ErrCreatePrefs)
             ELSE LET w2 == [w1 EXCEPT !.prefs = @ \cup {DefaultPreferences(id)}]
                  IN  IF "fetch" \in c.faults
                      THEN Outcome(w2, ErrFetchUser)
                      ELSE Outcome([w2 EXCEPT !.current_user = Some(UserOf(row))],
                                   RegistrationOk(UserOf(row)))

\* login_user
LoginSerial(w, rq, c) ==
    IF rq.username = "" \/ IsEmpty(rq.password)
    THEN Outcome(w, RequiredLogin)
    ELSE IF "poisoned" \in c.faults
    THEN Outcome(w, Panicked)
    ELSE LET found == SelectByUsername(w.users, rq.username)
         IN  IF "query" \in c.faults \/ found = {}
             THEN Outcome(w, InvalidCredentials)
             ELSE LET row == FirstRow(found)
                  IN  IF "panic" \in c.faults
                      THEN Outcome(w, Panicked)
                      ELSE IF "verify" \in c.faults
                      THEN Outcome(w, ErrVerify)
                      ELSE IF ~BcryptVerify(rq.password, row.password_hash)
                      THEN Outcome(w, InvalidCredentials)
                      ELSE Outcome([w EXCEPT !.current_user = Some(UserOf(row))],
                                   LoginOk(UserOf(row)))

\* logout_user
LogoutSerial(w) == Outcome([w EXCEPT !.current_user = None], LoggedOut)

\* get_current_user
WhoamiSerial(w) == Outcome(w, CurrentUserOk(w.current_user))

\* the handler of request rq, run alone
Serial(w, rq, c) ==
    CASE rq.op = "register" -> RegisterSerial(w, rq, c)
      [] rq.op = "login" -> LoginSerial(w, rq, c)
      [] rq.op = "logout" -> LogoutSerial(w)
      [] OTHER -> WhoamiSerial(w)

(***************************************************************************)
(* Results of rusqlite's query_row.                                        *)
(***************************************************************************)
SqlOk(v) == [tag |-> "Ok", val |-> v]
SqlErr(e) == [tag |-> "Err", err |-> e]
\* query_row on a result set: its first row, or Error::QueryReturnedNoRows;
\* a statement the engine fails returns the engine's error
QueryRow(rows, fault) ==
    IF fault THEN SqlErr("SqliteFailure")
    ELSE IF rows = {} THEN SqlErr("QueryReturnedNoRows")
    ELSE SqlOk(FirstRow(rows))

(***************************************************************************)
(* Bookkeeping shared by the handlers' steps.                              *)
(***************************************************************************)
Others(t) == Threads \ {t}
Did(t, what) == [trace EXCEPT ![t].did = @ \cup {what}]
Faulted(tr, what) == [tr EXCEPT !.faults = @ \cup {what}]

\* a handler is invoked: the history of the run notes whether it overlaps
\* another call
Invoked(t) ==
    /\ calls' = calls + 1
    /\ UNCHANGED <<booted, connPoisoned>>
    /\ IF serialRun /\ \A o \in Others(t) : pc[o] = "idle"
       THEN /\ serialRun' = TRUE
            /\ pre' = Some(World(users, prefs, seq, current_user))
       ELSE /\ serialRun' = FALSE
            /\ pre' = None

\* the handler of thread t, called with rq, returns r: its frame is dropped;
\* the histories note the response
Returns(t, rq, r, tr) ==
    /\ pc' = [pc EXCEPT ![t] = "done"]
    /\ req' = [req EXCEPT ![t] = rq]
    /\ resp' = [resp EXCEPT ![t] = r]
    /\ loc' = [loc EXCEPT ![t] = NoLocals]
    /\ trace' = [trace EXCEPT ![t] = tr]
    /\ LET o == Serial(ser, rq, tr)
       IN  /\ ser' = o.w
           /\ serResp' = [serResp EXCEPT ![t] = o.resp]
    /\ regOk' = IF rq.op = "register" /\ r.kind = "Ok" /\ r.success
                THEN [regOk EXCEPT ![rq.username] =
                        Some([password |-> rq.password, user |-> r.user.val])]
                ELSE regOk
    /\ lastOutcome' = IF ~serialRun' THEN None
                      ELSE IF rq.op \in {"register", "login"} /\ r.kind = "Ok" /\ r.success
                      THEN r.user
                      ELSE IF rq.op = "logout" /\ r.kind = "Ok" THEN None
                      ELSE lastOutcome

\* a handler called earlier returns
StepReturns(t, r, tr) ==
    /\ UNCHANGED <<pre, serialRun, booted, calls, connPoisoned>>
    /\ Returns(t, req[t], r, tr)

\* a handler called earlier panics: the thread unwinds, dropping its guards
Panics(t, tr) ==
    /\ UNCHANGED <<pre, serialRun, booted, calls>>
    /\ Returns(t, req[t], Panicked, tr)

\* the handler of thread t moves on to position p
Goto(t, p) ==
    /\ pc' = [pc EXCEPT ![t] = p]
    /\ UNCHANGED <<req, resp, ser, serResp, regOk, pre, lastOutcome, serialRun,
                   booted, calls, connPoisoned>>

(***************************************************************************)
(* register_user                                                           *)
(***************************************************************************)
\* register_user, were the length check to come before the emptiness check
CallRegisterLengthFirst(t, u, e, p) ==
    /\ pc[t] = "idle"
    /\ Invoked(t)
    /\ LET rq == RegisterRequest(u, e, p)
           tr == [NoTrace EXCEPT !.call = calls', !.reg = regOk[u]]
       IN  IF ByteLen(p) < MinPasswordLen
           THEN Returns(t, rq, TooShort, tr)
           ELSE IF u = "" \/ IsEmpty(p) \/ e = ""
           THEN Returns(t, rq, RequiredRegister, tr)
           ELSE /\ pc' = [pc EXCEPT ![t] = "r_hash"]
                /\ req' = [req EXCEPT ![t] = rq]
                /\ trace' = [trace EXCEPT ![t] = tr]
                /\ lastOutcome' = IF serialRun' THEN lastOutcome ELSE None
                /\ UNCHANGED <<loc, resp, ser, serResp, regOk>>
    /\ UNCHANGED <<db, current_user, locks>>

\* the call, and the validation of the request (lines 137-152)
CallRegister(t, u, e, p) ==
    /\ pc[t] = "idle"
    /\ Invoked(t)
    /\ LET rq == RegisterRequest(u, e, p)
           tr == [NoTrace EXCEPT !.call = calls', !.reg = regOk[u]]
       IN  IF u = "" \/ IsEmpty(p) \/ e = ""
           THEN Returns(t, rq, RequiredRegister, tr)
           ELSE IF ByteLen(p) < MinPasswordLen
           THEN Returns(t, rq, TooShort, tr)
           ELSE /\ pc' = [pc EXCEPT ![t] = "r_hash"]
                /\ req' = [req EXCEPT ![t] = rq]
                /\ trace' = [trace EXCEPT ![t] = tr]
                /\ lastOutcome' = IF serialRun' THEN lastOutcome ELSE None
                /\ UNCHANGED <<loc, resp, ser, serResp, regOk>>
    /\ UNCHANGED <<db, current_user, locks>>

\* register_user, were it to take the guard `conn` before it hashes
RegisterHashUnderLock(t) ==
    /\ pc[t] = "r_hash"
    /\ connLock = NoThread
    /\ \E fault \in BOOLEAN :
         IF fault
         THEN /\ StepReturns(t, ErrHash, Faulted(Did(t, "conn")[t], "hash"))
              /\ UNCHANGED connLock
         ELSE LET h == Some(Digest(trace[t].call, req[t].password))
              IN  /\ loc' = [loc EXCEPT ![t].password_hash = h]
                  /\ trace' = [trace EXCEPT ![t].did = @ \cup {"conn", "hash"},
                                            ![t].hash = h]
                  /\ connLock' = t
                  /\ Goto(t, "r_probe")
    /\ UNCHANGED <<db, current_user, sessLock>>

\* bcrypt::hash(&request.password, DEFAULT_COST) (lines 155-156)
RegisterHash(t) ==
    /\ pc[t] = "r_hash"
    /\ \E fault \in BOOLEAN :
         IF fault
         THEN /\ StepReturns(t, ErrHash, Faulted(trace[t], "hash"))
         ELSE LET h == Some(Digest(trace[t].call, req[t].password))
              IN  /\ loc' = [loc EXCEPT ![t].password_hash = h]
                  /\ trace' = [trace EXCEPT ![t].did = @ \cup {"hash"}, ![t].hash = h]
                  /\ Goto(t, "r_lock")
    /\ UNCHANGED <<db, current_user, locks>>

\* register_user, were conn no mutex: the handler enters whoever holds it
RegisterLockNoExclusion(t) ==
    /\ pc[t] = "r_lock"
    /\ connLock' = t
    /\ trace' = Did(t, "conn")
    /\ Goto(t, "r_probe")
    /\ UNCHANGED <<db, current_user, sessLock, loc>>

\* db_state.conn.lock().unwrap() (line 158)
RegisterLock(t) ==
    /\ pc[t] = "r_lock"
    /\ connLock = NoThread
    /\ IF connPoisoned
       THEN \* lock() returns Err(PoisonError) and unwrap() panics
            /\ Panics(t, Faulted(trace[t], "poisoned"))
            /\ UNCHANGED <<connLock, connPoisoned>>
       ELSE /\ connLock' = t
            /\ trace' = Did(t, "conn")
            /\ Goto(t, "r_probe")
            /\ UNCHANGED loc
    /\ UNCHANGED <<db, current_user, sessLock>>

\* the probe for an existing row, and the return when it finds one (lines 161-173)
RegisterProbe(t) ==
    /\ pc[t] = "r_probe"
    /\ \E fault \in BOOLEAN :
         LET exists == QueryRow(SelectByUsernameOrEmail(users, req[t].username,
                                                        req[t].email), fault)
             tr == IF fault THEN Faulted(trace[t], "probe") ELSE trace[t]
         IN  IF exists.tag = "Ok"
             THEN /\ StepReturns(t, AlreadyExists, tr)
                  /\ connLock' = NoThread
             ELSE /\ loc' = [loc EXCEPT ![t].exists = Some(exists)]
                  /\ trace' = [trace EXCEPT ![t] = tr]
                  /\ Goto(t, "r_insert")
                  /\ UNCHANGED connLock
    /\ UNCHANGED <<db, current_user, sessLock>>

\* register_user, were the error path of the insert to leak the guard `conn`
RegisterInsertLeaksGuard(t) ==
    /\ pc[t] = "r_insert"
    /\ \E fault \in BOOLEAN :
         IF fault \/ ~UsersConstraintOk(users, req[t].username, req[t].email)
         THEN /\ StepReturns(t, ErrCreateUser,
                         IF fault THEN Faulted(trace[t], "insert") ELSE trace[t])
              /\ UNCHANGED connLock
              /\ UNCHANGED db
         ELSE LET id == seq + 1
                  ts == calls
              IN  /\ users' = users \cup {UserRow(id, req[t].username, req[t].email,
                                                  loc[t].password_hash.val, ts)}
                  /\ seq' = id
                  /\ lastRowid' = id
                  /\ trace' = [trace EXCEPT ![t].ts = Some(ts)]
                  /\ Goto(t, "r_prefs")
                  /\ UNCHANGED <<prefs, connLock, loc>>
    /\ UNCHANGED <<current_user, sessLock>>

\* INSERT INTO users (lines 176-180)
RegisterInsert(t) ==
    /\ pc[t] = "r_insert"
    /\ \E fault \in BOOLEAN :
         IF fault \/ ~UsersConstraintOk(users, req[t].username, req[t].email)
         THEN /\ StepReturns(t, ErrCreateUser,
                         IF fault THEN Faulted(trace[t], "insert") ELSE trace[t])
              /\ connLock' = NoThread
              /\ UNCHANGED db
         ELSE LET id == seq + 1
                  ts == calls
              IN  /\ users' = users \cup {UserRow(id, req[t].username, req[t].email,
                                                  loc[t].password_hash.val, ts)}
                  /\ seq' = id
                  /\ lastRowid' = id
                  /\ trace' = [trace EXCEPT ![t].ts = Some(ts)]
                  /\ Goto(t, "r_prefs")
                  /\ UNCHANGED <<prefs, connLock, loc>>
    /\ UNCHANGED <<current_user, sessLock>>

\* conn.last_insert_rowid() and INSERT INTO user_preferences (lines 182-189)
RegisterPrefs(t) ==
    /\ pc[t] = "r_prefs"
    /\ \E fault \in BOOLEAN :
         LET user_id == lastRowid
         IN  IF fault \/ ~PrefsConstraintOk(prefs, user_id)
             THEN /\ StepReturns(t, ErrCreatePrefs,
                             IF fault THEN Faulted(trace[t], "prefs") ELSE trace[t])
                  /\ connLock' = NoThread
                  /\ UNCHANGED db
             ELSE /\ prefs' = prefs \cup {DefaultPreferences(user_id)}
                  /\ lastRowid' = user_id
                  /\ loc' = [loc EXCEPT ![t].user_id = Some(user_id)]
                  /\ Goto(t, "r_fetch")
                  /\ UNCHANGED <<users, seq, connLock, trace>>
    /\ UNCHANGED <<current_user, sessLock>>

\* register_user, were the fetch to select without its WHERE clause
RegisterFetchFirstUser(t) ==
    /\ pc[t] = "r_fetch"
    /\ \E fault \in BOOLEAN :
         LET row == QueryRow(users, fault)
         IN  IF row.tag = "Err"
             THEN /\ StepReturns(t, ErrFetchUser,
                             IF fault THEN Faulted(trace[t], "fetch") ELSE trace[t])
                  /\ connLock' = NoThread
             ELSE /\ loc' = [loc EXCEPT ![t].user = Some(UserOf(row.val))]
                  /\ Goto(t, "r_sess")
                  /\ UNCHANGED <<connLock, trace>>
    /\ UNCHANGED <<db, current_user, sessLock>>

\* SELECT id, username, email, created_at FROM users WHERE id = ? (lines 192-205)
RegisterFetch(t) ==
    /\ pc[t] = "r_fetch"
    /\ \E fault \in BOOLEAN :
         LET row == QueryRow(SelectById(users, loc[t].user_id.val), fault)
         IN  IF row.tag = "Err"
             THEN /\ StepReturns(t, ErrFetchUser,
                             IF fault THEN Faulted(trace[t], "fetch") ELSE trace[t])
                  /\ connLock' = NoThread
             ELSE /\ loc' = [loc EXCEPT ![t].user = Some(UserOf(row.val))]
                  /\ Goto(t, "r_sess")
                  /\ UNCHANGED <<connLock, trace>>
    /\ UNCHANGED <<db, current_user, sessLock>>

\* db_state.current_user.lock().unwrap() (line 208)
RegisterSessionLock(t) ==
    /\ pc[t] = "r_sess"
    /\ sessLock = NoThread
    /\ sessLock' = t
    /\ trace' = Did(t, "sess")
    /\ Goto(t, "r_set")
    /\ UNCHANGED <<db, current_user, connLock, loc>>

\* register_user, were Session to get a User built from the request instead
\* of the row read back
RegisterSetUserFromRequest(t) ==
    /\ pc[t] = "r_set"
    /\ current_user' = Some([id |-> loc[t].user_id.val, username |-> req[t].username,
                             email |-> req[t].email, created_at |-> 0])
    /\ sessLock' = NoThread
    /\ connLock' = NoThread
    /\ StepReturns(t, RegistrationOk(loc[t].user.val), trace[t])
    /\ UNCHANGED db

\* *guard = Some(user.clone()), and the return of the response (lines 208-214)
RegisterSetUser(t) ==
    /\ pc[t] = "r_set"
    /\ current_user' = loc[t].user
    /\ sessLock' = NoThread
    /\ connLock' = NoThread
    /\ StepReturns(t, RegistrationOk(loc[t].user.val), trace[t])
    /\ UNCHANGED db

(***************************************************************************)
(* login_user                                                              *)
(***************************************************************************)
\* the call, and the validation of the request (lines 222-229)
CallLogin(t, u, p) ==
    /\ pc[t] = "idle"
    /\ Invoked(t)
    /\ LET rq == LoginRequest(u, p)
           tr == [NoTrace EXCEPT !.call = calls', !.reg = regOk[u]]
       IN  IF u = "" \/ IsEmpty(p)
           THEN Returns(t, rq, RequiredLogin, tr)
           ELSE /\ pc' = [pc EXCEPT ![t] = "l_lock"]
                /\ req' = [req EXCEPT ![t] = rq]
                /\ trace' = [trace EXCEPT ![t] = tr]
                /\ lastOutcome' = IF serialRun' THEN lastOutcome ELSE None
                /\ UNCHANGED <<loc, resp, ser, serResp, regOk>>
    /\ UNCHANGED <<db, current_user, locks>>

\* login_user, were it to take both guards on entry
LoginLockBothGuards(t) ==
    /\ pc[t] = "l_lock"
    /\ connLock = NoThread /\ sessLock = NoThread
    /\ connLock' = t /\ sessLock' = t
    /\ trace' = Did(t, "conn")
    /\ Goto(t, "l_query")
    /\ UNCHANGED <<db, current_user, loc>>

\* db_state.conn.lock().unwrap() (line 231)
LoginLock(t) ==
    /\ pc[t] = "l_lock"
    /\ connLock = NoThread
    /\ IF connPoisoned
       THEN \* lock() returns Err(PoisonError) and unwrap() panics
            /\ Panics(t, Faulted(trace[t], "poisoned"))
            /\ UNCHANGED <<connLock, connPoisoned>>
       ELSE /\ connLock' = t
            /\ trace' = Did(t, "conn")
            /\ Goto(t, "l_query")
            /\ UNCHANGED loc
    /\ UNCHANGED <<db, current_user, sessLock>>

\* login_user, were the Err(_) arm to name the missing user
LoginQueryDiscloses(t) ==
    /\ pc[t] = "l_query"
    /\ \E fault \in BOOLEAN :
         LET user_result == QueryRow(SelectByUsername(users, req[t].username), fault)
             tr == IF fault THEN Faulted(trace[t], "query") ELSE trace[t]
         IN  IF user_result.tag = "Err"
             THEN /\ StepReturns(t, AuthResponse(FALSE, "No such user", None), tr)
                  /\ connLock' = NoThread
             ELSE /\ loc' = [loc EXCEPT ![t].user_result = Some(user_result.val)]
                  /\ trace' = [trace EXCEPT ![t] = tr]
                  /\ Goto(t, "l_verify")
                  /\ UNCHANGED connLock
    /\ UNCHANGED <<db, current_user, sessLock>>

\* SELECT ... FROM users WHERE username = ?, and the Err(_) arm of the match
\* (lines 234-248, 278-282)
LoginQuery(t) ==
    /\ pc[t] = "l_query"
    /\ \E fault \in BOOLEAN :
         LET user_result == QueryRow(SelectByUsername(users, req[t].username), fault)
             tr == IF fault THEN Faulted(trace[t], "query") ELSE trace[t]
         IN  IF user_result.tag = "Err"
             THEN /\ StepReturns(t, InvalidCredentials, tr)
                  /\ connLock' = NoThread
             ELSE /\ loc' = [loc EXCEPT ![t].user_result = Some(user_result.val)]
                  /\ trace' = [trace EXCEPT ![t] = tr]
                  /\ Goto(t, "l_verify")
                  /\ UNCHANGED connLock
    /\ UNCHANGED <<db, current_user, sessLock>>

\* what a call of bcrypt::verify can do: return Ok, return Err, or crash
VerifyOutcomes == {"ok", "err", "panic"}

\* login_user, were a mismatch to sign the current user out
LoginVerifyClears(t) ==
    /\ pc[t] = "l_verify"
    /\ \E outcome \in VerifyOutcomes :
         LET row == loc[t].user_result.val
             password_valid == BcryptVerify(req[t].password, row.password_hash)
         IN  IF outcome = "panic"
             THEN /\ Panics(t, Faulted(trace[t], "panic"))
                  /\ connLock' = NoThread
                  /\ connPoisoned' = TRUE
                  /\ UNCHANGED <<db, current_user, sessLock>>
             ELSE IF outcome = "err"
             THEN /\ StepReturns(t, ErrVerify, Faulted(trace[t], "verify"))
                  /\ connLock' = NoThread
                  /\ UNCHANGED <<db, current_user, sessLock>>
             ELSE IF ~password_valid
             THEN /\ StepReturns(t, InvalidCredentials, Did(t, "verify")[t])
                  /\ connLock' = NoThread
                  /\ current_user' = None
                  /\ UNCHANGED <<db, sessLock>>
             ELSE /\ loc' = [loc EXCEPT ![t].user = Some(UserOf(row))]
                  /\ trace' = Did(t, "verify")
                  /\ Goto(t, "l_sess")
                  /\ UNCHANGED <<connLock, db, current_user, sessLock>>

\* bcrypt::verify(&request.password, &password_hash), under the guard `conn`,
\* and the return on an error or a mismatch (lines 251-267)
LoginVerify(t) ==
    /\ pc[t] = "l_verify"
    /\ \E outcome \in VerifyOutcomes :
         LET row == loc[t].user_result.val
             password_valid == BcryptVerify(req[t].password, row.password_hash)
         IN  IF outcome = "panic"
             THEN \* the guard is dropped while the thread unwinds
                  /\ Panics(t, Faulted(trace[t], "panic"))
                  /\ connLock' = NoThread
                  /\ connPoisoned' = TRUE
             ELSE IF outcome = "err"
             THEN /\ StepReturns(t, ErrVerify, Faulted(trace[t], "verify"))
                  /\ connLock' = NoThread
             ELSE IF ~password_valid
             THEN /\ StepReturns(t, InvalidCredentials, Did(t, "verify")[t])
                  /\ connLock' = NoThread
             ELSE /\ loc' = [loc EXCEPT ![t].user = Some(UserOf(row))]
                  /\ trace' = Did(t, "verify")
                  /\ Goto(t, "l_sess")
                  /\ UNCHANGED connLock
    /\ UNCHANGED <<db, current_user, sessLock>>

\* db_state.current_user.lock().unwrap() (line 270)
LoginSessionLock(t) ==
    /\ pc[t] = "l_sess"
    /\ sessLock = NoThread
    /\ sessLock' = t
    /\ trace' = Did(t, "sess")
    /\ Goto(t, "l_set")
    /\ UNCHANGED <<db, current_user, connLock, loc>>

\* *guard = Some(user.clone()), and the return of the response (lines 270-276)
LoginSetUser(t) ==
    /\ pc[t] = "l_set"
    /\ current_user' = loc[t].user
    /\ sessLock' = NoThread
    /\ connLock' = NoThread
    /\ StepReturns(t, LoginOk(loc[t].user.val), trace[t])
    /\ UNCHANGED db

(***************************************************************************)
(* logout_user                                                             *)
(***************************************************************************)
CallLogout(t) ==
    /\ pc[t] = "idle"
    /\ Invoked(t)
    /\ pc' = [pc EXCEPT ![t] = "o_lock"]
    /\ req' = [req EXCEPT ![t] = LogoutRequest]
    /\ trace' = [trace EXCEPT ![t] = [NoTrace EXCEPT !.call = calls']]
    /\ lastOutcome' = IF serialRun' THEN lastOutcome ELSE None
    /\ UNCHANGED <<db, current_user, locks, loc, resp, ser, serResp, regOk>>

\* logout_user, were it to wait for conn as the other handlers do
LogoutLockTakesConn(t) ==
    /\ pc[t] = "o_lock"
    /\ sessLock = NoThread
    /\ connLock = NoThread
    /\ sessLock' = t
    /\ trace' = Did(t, "sess")
    /\ Goto(t, "o_clear")
    /\ UNCHANGED <<db, current_user, connLock, loc>>

\* db_state.current_user.lock().unwrap() (line 288)
LogoutLock(t) ==
    /\ pc[t] = "o_lock"
    /\ sessLock = NoThread
    /\ sessLock' = t
    /\ trace' = Did(t, "sess")
    /\ Goto(t, "o_clear")
    /\ UNCHANGED <<db, current_user, connLock, loc>>

\* logout_user, were it to return without clearing the slot
LogoutClearKeepsUser(t) ==
    /\ pc[t] = "o_clear"
    /\ current_user' = current_user
    /\ sessLock' = NoThread
    /\ StepReturns(t, LoggedOut, trace[t])
    /\ UNCHANGED <<db, connLock>>

\* *guard = None, and the return of the response (lines 288-294)
LogoutClear(t) ==
    /\ pc[t] = "o_clear"
    /\ current_user' = None
    /\ sessLock' = NoThread
    /\ StepReturns(t, LoggedOut, trace[t])
    /\ UNCHANGED <<db, connLock>>

(***************************************************************************)
(* get_current_user                                                        *)
(***************************************************************************)
CallWhoami(t) ==
    /\ pc[t] = "idle"
    /\ Invoked(t)
    /\ pc' = [pc EXCEPT ![t] = "w_lock"]
    /\ req' = [req EXCEPT ![t] = WhoamiRequest]
    /\ trace' = [trace EXCEPT ![t] = [NoTrace EXCEPT !.call = calls']]
    /\ lastOutcome' = IF serialRun' THEN lastOutcome ELSE None
    /\ UNCHANGED <<db, current_user, locks, loc, resp, ser, serResp, regOk>>

\* db_state.current_user.lock().unwrap() (line 299)
WhoamiLock(t) ==
    /\ pc[t] = "w_lock"
    /\ sessLock = NoThread
    /\ sessLock' = t
    /\ trace' = Did(t, "sess")
    /\ Goto(t, "w_read")
    /\ UNCHANGED <<db, current_user, connLock, loc>>

\* .clone(), and the return of the clone (lines 299-300)
WhoamiRead(t) ==
    /\ pc[t] = "w_read"
    /\ sessLock' = NoThread
    /\ StepReturns(t, CurrentUserOk(current_user), trace[t])
    /\ UNCHANGED <<db, current_user, connLock>>

(***************************************************************************)
(* The host.                                                               *)
(***************************************************************************)
\* the bridge hands the returned value to the front-end; the worker thread
\* is free for the next command
Deliver(t) ==
    /\ pc[t] = "done"
    /\ pc' = [pc EXCEPT ![t] = "idle"]
    /\ req' = [req EXCEPT ![t] = NoReq]
    /\ resp' = [resp EXCEPT ![t] = NoResp]
    /\ trace' = [trace EXCEPT ![t] = NoTrace]
    /\ serResp' = [serResp EXCEPT ![t] = NoResp]
    /\ pre' = None
    /\ booted' = FALSE
    /\ UNCHANGED <<db, current_user, locks, connPoisoned, loc, ser, regOk, lastOutcome, serialRun, calls>>

\* the restart, were DbState::new to create the tables afresh
RestartRecreatesTables ==
    /\ \A t \in Threads : pc[t] = "idle"
    /\ users' = {} /\ prefs' = {} /\ seq' = 0
    /\ current_user' = None
    /\ lastRowid' = 0
    /\ ser' = World({}, {}, 0, None)
    /\ lastOutcome' = None
    /\ serialRun' = TRUE
    /\ booted' = TRUE
    /\ connPoisoned' = FALSE
    /\ UNCHANGED <<locks, frame, trace, serResp, regOk, pre, calls>>

\* the process exits with no command in flight and is started again:
\* DbState::new reopens users.db (CREATE TABLE IF NOT EXISTS keeps the rows)
\* on a fresh connection behind a fresh mutex, with current_user None
Restart ==
    /\ \A t \in Threads : pc[t] = "idle"
    /\ current_user' = None
    /\ lastRowid' = 0
    /\ ser' = [ser EXCEPT !.current_user = None]
    /\ lastOutcome' = None
    /\ serialRun' = TRUE
    /\ booted' = TRUE
    /\ connPoisoned' = FALSE
    /\ UNCHANGED <<users, prefs, seq, locks, frame, trace, serResp, regOk, pre, calls>>

\* a command invoked while no other command is in flight
Quiet(t) == calls < MaxCalls /\ \A o \in Others(t) : pc[o] = "idle"
SerialRegister(t, u, e, p) == Quiet(t) /\ CallRegister(t, u, e, p)
SerialLogin(t, u, p) == Quiet(t) /\ CallLogin(t, u, p)
SerialLogout(t) == Quiet(t) /\ CallLogout(t)
SerialWhoami(t) == Quiet(t) /\ CallWhoami(t)

\* a command invoked whatever the other threads are doing
Budget == calls < MaxOverlappingCalls
OverlappingRegister(t, u, e, p) == Budget /\ CallRegister(t, u, e, p)
OverlappingLogin(t, u, p) == Budget /\ CallLogin(t, u, p)
OverlappingLogout(t) == Budget /\ CallLogout(t)
OverlappingWhoami(t) == Budget /\ CallWhoami(t)

\* the requests of the runs with overlapping commands
ConcUsernames == {"alice", "bob"}
ConcEmails == {"alice@x", "bob@x"}
ConcPasswords == {PwShort, PwSecret}

\* the steps of the handlers in flight
Step(t) ==
    \/ RegisterHash(t)
    \/ RegisterLock(t)
    \/ RegisterProbe(t)
    \/ RegisterInsert(t)
    \/ RegisterPrefs(t)
    \/ RegisterFetch(t)
    \/ RegisterSessionLock(t)
    \/ RegisterSetUser(t)
    \/ LoginLock(t)
    \/ LoginQuery(t)
    \/ LoginVerify(t)
    \/ LoginSessionLock(t)
    \/ LoginSetUser(t)
    \/ LogoutLock(t)
    \/ LogoutClear(t)
    \/ WhoamiLock(t)
    \/ WhoamiRead(t)
    \/ Deliver(t)

\* the host dispatches commands on worker threads, concurrently
Next ==
    \/ \E t \in Threads :
         \/ \E u \in ConcUsernames, e \in ConcEmails, p \in ConcPasswords :
              OverlappingRegister(t, u, e, p)
         \/ \E u \in ConcUsernames, p \in ConcPasswords : OverlappingLogin(t, u, p)
         \/ OverlappingLogout(t)
         \/ OverlappingWhoami(t)
         \/ Step(t)
    \/ Restart

Spec == Init /\ [][Next]_vars

\* the front-end invokes one command at a time
NextSerial ==
    \/ \E t \in Threads :
         \/ \E u \in Usernames, e \in Emails, p \in Passwords : SerialRegister(t, u, e, p)
         \/ \E u \in Usernames, p \in Passwords : SerialLogin(t, u, p)
         \/ SerialLogout(t)
         \/ SerialWhoami(t)
         \/ Step(t)
    \/ Restart

SpecSerial == Init /\ [][NextSerial]_vars

\* overlapping commands about one user: which lock a handler takes, and
\* when, does not depend on who the request names
NextOneUser ==
    \/ \E t \in Threads :
         \/ \E p \in ConcPasswords : OverlappingRegister(t, "alice", "alice@x", p)
         \/ \E p \in ConcPasswords : OverlappingLogin(t, "alice", p)
         \/ OverlappingLogout(t)
         \/ OverlappingWhoami(t)
         \/ Step(t)
    \/ Restart

\* every worker thread that can take a step is scheduled in the end
FairSpec == Init /\ [][NextOneUser]_vars /\ \A t \in Threads : WF_vars(Step(t))

(***************************************************************************)
(* Properties.                                                             *)
(***************************************************************************)
Returned(t, op) == pc[t] = "done" /\ req[t].op = op
Succeeded(r) == r.kind = "Ok" /\ r.success
Refused(r) == r.kind = "Ok" /\ ~r.success
\* no statement of the call failed in the engine or in the hasher
NoFault(t) == trace[t].faults = {}
NoDuplicateUsers ==
    \A r1 \in users, r2 \in users :
        (r1.username = r2.username \/ r1.email = r2.email) => r1 = r2

\* C1 Session monotonicity: in a run of one command at a time,
\* get_current_user returns the user of the most recent successful
\* register_user or login_user, and None when a logout or the process start
\* came after it.
SessionMonotonicity ==
    \A t \in Threads :
        Returned(t, "whoami") /\ serialRun => resp[t] = CurrentUserOk(lastOutcome)

\* a get_current_user that returns bob after alice had been the occupant
SessionMonotonicityWitness ==
    \E t \in Threads :
        /\ Returned(t, "whoami")
        /\ resp[t].value.tag = "Some"
        /\ resp[t].value.val.username = "bob"
        /\ regOk["alice"] # None

\* C2 Uniqueness: users never holds two rows with one username or one email;
\* a registration whose username or email matches a row never succeeds and
\* leaves users and user_preferences as they were, and when the request is
\* valid and no statement fails it returns "Username or email already exists".
Uniqueness ==
    /\ NoDuplicateUsers
    /\ \A t \in Threads :
         Returned(t, "register") /\ pre # None
         /\ (\E r \in pre.val.users :
               r.username = req[t].username \/ r.email = req[t].email)
         => /\ ~Succeeded(resp[t])
            /\ users = pre.val.users
            /\ prefs = pre.val.prefs
            /\ ( /\ req[t].username # "" /\ req[t].email # ""
                 /\ ByteLen(req[t].password) >= MinPasswordLen
                 /\ NoFault(t)
                 => resp[t] = AlreadyExists )

\* a registration refused for its email alone
UniquenessWitness ==
    \E t \in Threads :
        /\ Returned(t, "register") /\ pre # None
        /\ resp[t] = AlreadyExists
        /\ \A r \in pre.val.users : r.username # req[t].username
        /\ \E r \in pre.val.users : r.email = req[t].email

\* C3 Lock safety: with commands overlapping, every response of
\* register_user and login_user is the one the serial replica gave when the
\* calls were applied to it one at a time, the Session occupant is the
\* replica's, the tables are the replica's whenever no handler is inside the
\* Store lock, and no two rows share a username or an email.
LockSafety ==
    /\ NoDuplicateUsers
    /\ \A t \in Threads :
         pc[t] = "done" /\ req[t].op \in {"register", "login"} => resp[t] = serResp[t]
    /\ current_user = ser.current_user
    /\ connLock = NoThread =>
         users = ser.users /\ prefs = ser.prefs /\ seq = ser.seq

\* two overlapping registrations of one username: one wins, one is refused
LockSafetyWitness ==
    \E t \in Threads, o \in Threads :
        /\ t # o /\ ~serialRun
        /\ Returned(t, "register") /\ Returned(o, "register")
        /\ req[t].username = req[o].username
        /\ Succeeded(resp[t])
        /\ resp[o] = AlreadyExists
        /\ trace[o].call < trace[t].call

PreferencesCoupling ==
    \A t \in Threads :
        Returned(t, "register") /\ Succeeded(resp[t])
        => LET id == resp[t].user.val.id
               rows == {r \in prefs : r.user_id = id}
           IN  /\ Cardinality(rows) = 1
               /\ \A r \in rows :
                    /\ r.default_volume = 100
                    /\ r.default_volume_unit = "mL"
                    /\ r.default_concentration_unit = "M"
                    /\ r.theme = "auto"
                    /\ r.scientific_notation = 0
                    /\ r.decimal_places = 4

\* the second successful registration of a run
PreferencesCouplingWitness ==
    \E t \in Threads :
        /\ Returned(t, "register") /\ Succeeded(resp[t])
        /\ resp[t].user.val.id = 2
        /\ Cardinality(prefs) = 2

\* the username of the request has no row / has a row whose digest the
\* password does not verify against
UnknownUsername(t) ==
    SelectByUsername(pre.val.users, req[t].username) = {}
WrongPassword(t) ==
    \E r \in SelectByUsername(pre.val.users, req[t].username) :
        r.password_hash.of # req[t].password

\* C6 Non-disclosure: login_user with a non-empty username and password
\* returns the one response (success=false, "Invalid username or password",
\* no user) and leaves Session as it was, both when the username has no row
\* and when it has one but the password does not verify (bcrypt::verify
\* neither failing nor crashing, and the Store lock not poisoned).
NonDisclosure ==
    \A t \in Threads :
        /\ Returned(t, "login") /\ pre # None
        /\ req[t].username # "" /\ ~IsEmpty(req[t].password)
        /\ trace[t].faults \cap {"verify", "panic", "poisoned"} = {}
        /\ (UnknownUsername(t) \/ WrongPassword(t))
        => /\ resp[t] = InvalidCredentials
           /\ current_user = pre.val.current_user

\* a wrong password for a registered username, with another user signed in
NonDisclosureWitness ==
    \E t \in Threads :
        /\ Returned(t, "login") /\ pre # None
        /\ WrongPassword(t) /\ NoFault(t)
        /\ resp[t] = InvalidCredentials
        /\ current_user # None
        /\ current_user.val.username # req[t].username

\* C7 Failed authentication has no effect: a register_user or login_user
\* that returns success=false leaves the Session occupant and the rows of
\* users and user_preferences as they were when it was called.
FailedAuthNoEffect ==
    \A t \in Threads :
        /\ pc[t] = "done" /\ req[t].op \in {"register", "login"} /\ pre # None
        /\ Refused(resp[t])
        => /\ current_user = pre.val.current_user
           /\ users = pre.val.users
           /\ prefs = pre.val.prefs

\* a login refused for its password while a user is signed in
FailedAuthNoEffectWitness ==
    \E t \in Threads :
        /\ Returned(t, "login") /\ pre # None
        /\ WrongPassword(t) /\ Refused(resp[t])
        /\ current_user # None

DbFaults == {"probe", "insert", "prefs", "fetch", "query"}

\* C8 Runtime database failures are propagated: a register_user or
\* login_user in which a statement failed in the engine returns a
\* command-level error and leaves Session as it was.
DbFailuresPropagate ==
    \A t \in Threads :
        /\ pc[t] = "done" /\ req[t].op \in {"register", "login"} /\ pre # None
        /\ trace[t].faults \cap DbFaults # {}
        => /\ resp[t].kind = "Err"
           /\ current_user = pre.val.current_user

\* C9 Register validation: an empty field is refused with "Username, email,
\* and password are required", also when the password is short as well;
\* otherwise a password of fewer than 6 (bytes, as the code measures) is
\* refused with "Password must be at least 6 characters"; either way the
\* call never took the Store lock, computed no hash and created no row.
RegisterValidation ==
    \A t \in Threads :
        Returned(t, "register") /\ pre # None
        => LET empty == req[t].username = "" \/ req[t].email = ""
                        \/ req[t].password = << >>
               short == ByteLen(req[t].password) < 6
           IN  /\ empty => resp[t] = RequiredRegister
               /\ ~empty /\ short => resp[t] = TooShort
               /\ empty \/ short =>
                    /\ trace[t].did = {}
                    /\ trace[t].hash = None
                    /\ users = pre.val.users
                    /\ prefs = pre.val.prefs

\* an empty email together with a short password
RegisterValidationWitness ==
    \E t \in Threads :
        /\ Returned(t, "register")
        /\ req[t].email = "" /\ req[t].username # ""
        /\ req[t].password = PwShort
        /\ resp[t] = RequiredRegister

\* C10 logout_user: its return clears Session whatever the occupant, the
\* response is success=true "Logged out successfully" with no user, no step
\* of it reads or changes the tables or takes the Store lock, and its steps
\* wait for the Session lock alone, whose holder never waits: it completes
\* while another handler holds the Store lock.
LogoutContract ==
    /\ [](\A t \in Threads :
            /\ Returned(t, "logout") => resp[t] = LoggedOut /\ trace[t].did = {"sess"}
            /\ pc[t] = "o_lock" /\ sessLock = NoThread => ENABLED LogoutLock(t)
            /\ pc[t] = "o_clear" => sessLock = t /\ ENABLED LogoutClear(t)
            /\ sessLock = t => pc[t] \in {"r_set", "l_set", "o_clear", "w_read"})
    /\ [][\A t \in Threads :
            req'[t].op = "logout" /\ pc'[t] # pc[t] /\ pc'[t] # "idle"
            => /\ UNCHANGED <<users, prefs, seq, lastRowid, connLock>>
               /\ connLock # t
               /\ pc'[t] = "done" => current_user' = None]_vars

\* a logout that returned while a registration called before it holds the
\* Store lock, half way through its inserts
LogoutContractWitness ==
    \E t \in Threads, o \in Threads :
        /\ Returned(t, "logout")
        /\ connLock = o /\ pc[o] = "r_prefs"
        /\ trace[o].call < trace[t].call
        /\ current_user = None

\* C11 Persistence survives restart, Session does not: a restart leaves the
\* rows of users and user_preferences as they were and the Session empty;
\* the first command after it, when it is get_current_user, returns None,
\* and when it is login_user with a registered username and its password
\* (no statement failing), returns success=true with the registered user.
PersistenceAcrossRestart ==
    /\ [](\A t \in Threads :
            booted =>
              /\ Returned(t, "whoami") => resp[t] = CurrentUserOk(None)
              /\ Returned(t, "login") /\ trace[t].reg # None /\ NoFault(t)
                 /\ trace[t].reg.val.password = req[t].password
                 => resp[t] = LoginOk(trace[t].reg.val.user))
    /\ [][~booted /\ booted'
            => users' = users /\ prefs' = prefs /\ seq' = seq /\ current_user' = None]_vars

\* the first command after a restart is a login that succeeds: the row it
\* read was written before the restart
PersistenceAcrossRestartWitness ==
    \E t \in Threads :
        /\ booted /\ users # {}
        /\ Returned(t, "login") /\ Succeeded(resp[t])

\* C12 login_user releases the Store lock before password verification: no
\* login handler is at bcrypt::verify while it holds the Store lock.
VerifyOutsideStoreLock ==
    \A t \in Threads : pc[t] = "l_verify" => connLock # t

\* C13 register_user hashes before it takes the Store lock: the handler at
\* bcrypt::hash holds no lock, a registration holding the Store lock has its
\* hash already, and a registration whose hashing failed returns the
\* command-level error having taken no lock, with the tables and the Session
\* as they were when it was called.
HashBeforeLock ==
    \A t \in Threads :
        /\ pc[t] = "r_hash" => connLock # t /\ sessLock # t
        /\ connLock = t /\ req[t].op = "register"
           => "hash" \in trace[t].did /\ loc[t].password_hash # None
        /\ Returned(t, "register") /\ "hash" \in trace[t].faults /\ pre # None
           => /\ resp[t] = ErrHash
              /\ trace[t].did = {}
              /\ users = pre.val.users /\ prefs = pre.val.prefs
              /\ current_user = pre.val.current_user

\* a registration whose hashing failed while bob was signed in
HashBeforeLockWitness ==
    \E t \in Threads :
        /\ Returned(t, "register") /\ resp[t] = ErrHash /\ pre # None
        /\ users # {} /\ current_user # None

\* C14 The two inserts of register_user take effect together or not at all:
\* whenever no register_user is in progress, every users row has exactly one
\* user_preferences row keyed by its id.
InsertsAtomic ==
    (\A t \in Threads : req[t].op = "register" => pc[t] = "done")
    => \A r \in users : Cardinality({q \in prefs : q.user_id = r.id}) = 1

\* the positions at which a handler executes a database statement, a hash
\* or a verification
Working == {"r_hash", "r_probe", "r_insert", "r_prefs", "r_fetch", "l_query", "l_verify"}

\* C15 The Session lock is held only for the read, replace or clear of the
\* slot: no handler holds it at a database statement, a hash or a
\* verification, and its holder is at the assignment or the clone.
SessionLockScope ==
    \A t \in Threads :
        /\ pc[t] \in Working => sessLock # t
        /\ sessLock = t => pc[t] \in {"r_set", "l_set", "o_clear", "w_read"}
        /\ pc[t] \in {"idle", "done"} => sessLock # t

\* a registration holds the Session lock for its assignment while another
\* handler is hashing
SessionLockScopeWitness ==
    \E t \in Threads, o \in Threads :
        /\ sessLock = t /\ connLock = t /\ pc[t] = "r_set"
        /\ pc[o] = "r_hash"

\* C16 Deadlock freedom and lock release: under fair scheduling every
\* invocation returns; a handler that has returned holds no lock; a handler
\* waiting for a lock does not hold that lock; a handler holding both locks
\* held the Store lock when it took the Session lock, and none takes the
\* Store lock while it holds the Session lock.
DeadlockFreedom ==
    /\ \A t \in Threads : (pc[t] # "idle") ~> (pc[t] = "done")
    /\ [](\A t \in Threads :
            /\ pc[t] \in {"idle", "done"} => connLock # t /\ sessLock # t
            /\ pc[t] \in {"r_lock", "l_lock"} => connLock # t /\ sessLock # t
            /\ pc[t] \in {"r_sess", "l_sess", "o_lock", "w_lock"} => sessLock # t)
    /\ [][\A t \in Threads :
            /\ connLock' = t /\ connLock # t => sessLock # t /\ sessLock' # t
            /\ sessLock' = t /\ sessLock # t /\ connLock' = t => connLock = t]_vars

\* a registration has left on an error path and the Store lock is free for
\* the handler that waited for it
DeadlockFreedomWitness ==
    \E t \in Threads, o \in Threads :
        /\ Returned(t, "register") /\ resp[t].kind = "Err"
        /\ "conn" \in trace[t].did
        /\ pc[o] \in {"r_lock", "l_lock"}
        /\ connLock = NoThread /\ sessLock = NoThread

\* C17 Lock poisoning is surfaced as a command-level error: a handler that
\* meets a poisoned lock returns Err carrying a message.
PoisonSurfaced ==
    \A t \in Threads :
        pc[t] = "done" /\ "poisoned" \in trace[t].faults => resp[t].kind = "Err"

\* C18 The user a successful register_user returns, and stores in Session,
\* is the row this invocation inserted, other registrations overlapping or
\* not: it has the request's username and email and this call's digest and
\* timestamp; its id is positive and greater than every id assigned before;
\* ids are unique and rows are never removed or renumbered.
RegisteredIdentity ==
    /\ [](/\ \A t \in Threads :
               Returned(t, "register") /\ Succeeded(resp[t])
               => LET u == resp[t].user.val
                  IN  /\ u.username = req[t].username /\ u.email = req[t].email
                      /\ u.id > 0
                      /\ \E r \in users :
                            /\ UserOf(r) = u
                            /\ Some(r.password_hash) = trace[t].hash
                            /\ Some(r.created_at) = trace[t].ts
           /\ \A r1 \in users, r2 \in users : r1.id = r2.id => r1 = r2
           /\ \A r \in users : r.id \in 1..seq)
    /\ [][/\ users \subseteq users' /\ seq' >= seq
          /\ \A r \in users' \ users : r.id > seq /\ r.id = seq'
          /\ \A t \in Threads :
                pc[t] = "r_set" /\ pc'[t] = "done" => current_user' = resp'[t].user]_vars

\* two overlapping registrations, both accepted, the later caller getting
\* the smaller id
RegisteredIdentityWitness ==
    \E t \in Threads, o \in Threads :
        /\ ~serialRun
        /\ Returned(t, "register") /\ Succeeded(resp[t])
        /\ Returned(o, "register") /\ Succeeded(resp[o])
        /\ trace[t].call < trace[o].call
        /\ resp[t].user.val.id > resp[o].user.val.id

\* C19 The Session occupant, when present, is (id, username, email,
\* created_at) of a row of users, and every value that enters the slot is the
\* user of a register_user or login_user that succeeds in that step.
SessionBacked ==
    /\ [](current_user # None => \E r \in users : UserOf(r) = current_user.val)
    /\ [][current_user' # current_user /\ current_user' # None
          => \E t \in Threads :
                /\ pc[t] \in {"r_set", "l_set"} /\ pc'[t] = "done"
                /\ Succeeded(resp'[t])
                /\ resp'[t].user = current_user']_vars

\* a login has put the stored row of a registered user into the slot
SessionBackedWitness ==
    \E t \in Threads :
        /\ Returned(t, "login") /\ Succeeded(resp[t])
        /\ current_user = resp[t].user

\* C20 register_user refuses a password of fewer than 6 characters: with no
\* field empty, the response is "Password must be at least 6 characters"
\* exactly when the password has fewer than 6 characters.
MinPasswordChars ==
    \A t \in Threads :
        Returned(t, "register")
        /\ req[t].username # "" /\ req[t].email # "" /\ ~IsEmpty(req[t].password)
        => (resp[t] = TooShort <=> CharLen(req[t].password) < 6)

====
